---- MODULE Spec2Model ----
(***************************************************************************)
(* Model of backend/profiles_api.py: the slug helpers, slug resolution, the *)
(* transactional follow / unfollow operations on the "users" collection    *)
(* and the slug operations ensure_user_slug, upsert_user and               *)
(* backfill_all_slugs, as the request handlers of backend/config.py run    *)
(* them.                                                                   *)
(*                                                                         *)
(* Strings are sequences of one-character strings, so that the slug        *)
(* helpers are computed character by character as the regular expressions  *)
(* of the source compute them.  The empty string is <<>>.                  *)
(***************************************************************************)
EXTENDS Integers, Sequences, FiniteSets, TLC

(***************************************************************************)
(* Characters and Python string primitives                                 *)
(***************************************************************************)

\* Python None, kept apart from the empty string.
None == <<"<None>">>

\* Python truthiness of an optional string: None and "" are falsy.
Truthy(s) == s # <<>> /\ s # None

\* (x or ""): None becomes the empty string.
OrEmpty(s) == IF s = None THEN <<>> ELSE s

UpperChars == {"A", "B", "C", "D", "L"}
LowerChars == {"a", "b", "c", "d", "l", "i", "o", "y", "x", "z"}
DigitChars == {"1"}
SpaceChars == {" "}

LowerOf == ("A" :> "a") @@ ("B" :> "b") @@ ("C" :> "c") @@ ("D" :> "d") @@ ("L" :> "l")

\* str.lower() on one character.
LowerChar(c) == IF c \in UpperChars THEN LowerOf[c] ELSE c

\* str.lower()
Lower(s) == [i \in 1..Len(s) |-> LowerChar(s[i])]

IsSpace(c) == c \in SpaceChars

RECURSIVE LStrip(_, _)
\* Drop the leading characters of s that are in the set cs.
LStrip(s, cs) ==
    IF s = <<>> THEN <<>>
    ELSE IF Head(s) \in cs THEN LStrip(Tail(s), cs)
    ELSE s

RECURSIVE RStrip(_, _)
\* Drop the trailing characters of s that are in the set cs.
RStrip(s, cs) ==
    IF s = <<>> THEN <<>>
    ELSE IF s[Len(s)] \in cs THEN RStrip(SubSeq(s, 1, Len(s) - 1), cs)
    ELSE s

\* str.strip(): whitespace off both ends.
Strip(s) == RStrip(LStrip(s, SpaceChars), SpaceChars)

\* str.strip("-")
StripDashes(s) == RStrip(LStrip(s, {"-"}), {"-"})

RECURSIVE CollapseRuns(_, _, _)
\* re.sub(<one or more characters of cs>, by, s): every maximal run of
\* characters of cs becomes the single character by.
CollapseRuns(s, cs, by) ==
    IF s = <<>> THEN <<>>
    ELSE IF Head(s) \in cs
         THEN <<by>> \o CollapseRuns(LStrip(s, cs), cs, by)
         ELSE <<Head(s)>> \o CollapseRuns(Tail(s), cs, by)

RECURSIVE TakeWord(_)
\* The leading run of non-whitespace characters of s.
TakeWord(s) ==
    IF s = <<>> \/ IsSpace(Head(s)) THEN <<>>
    ELSE <<Head(s)>> \o TakeWord(Tail(s))

RECURSIVE Split(_)
\* str.split(): the whitespace-separated words of s, as a sequence of strings.
Split(s) ==
    LET t == LStrip(s, SpaceChars)
        w == TakeWord(t)
    IN  IF t = <<>> THEN <<>>
        ELSE <<w>> \o Split(SubSeq(t, Len(w) + 1, Len(t)))

RECURSIVE JoinSpace(_)
\* " ".join(parts)
JoinSpace(parts) ==
    IF parts = <<>> THEN <<>>
    ELSE IF Len(parts) = 1 THEN Head(parts)
    ELSE Head(parts) \o <<" ">> \o JoinSpace(Tail(parts))

\* [p for p in parts if p]
NonEmptyParts(parts) == SelectSeq(parts, LAMBDA p : p # <<>>)

(***************************************************************************)
(* Slug helpers (pure functions)                                           *)
(***************************************************************************)

\* _slug_strip_re = [^a-zA-Z0-9\s-]: the characters that survive the strip.
SlugKeep(c) ==
    c \in UpperChars \cup LowerChars \cup DigitChars \cup SpaceChars \cup {"-"}

\* Mutant: the letters keep their case.
kebab_any_KeepCase(s) ==
    LET s1 == SelectSeq(OrEmpty(s), SlugKeep)
        s2 == CollapseRuns(s1, SpaceChars, "-")
        s3 == CollapseRuns(s2, {"-"}, "-")
    IN  StripDashes(s3)

\* Mutant: the hyphens at the ends are kept.
kebab_any_NoTrim(s) ==
    LET s1 == Lower(SelectSeq(OrEmpty(s), SlugKeep))
        s2 == CollapseRuns(s1, SpaceChars, "-")
    IN  CollapseRuns(s2, {"-"}, "-")

kebab_any(s) ==
    LET s1 == Lower(SelectSeq(OrEmpty(s), SlugKeep))
        s2 == CollapseRuns(s1, SpaceChars, "-")
        s3 == CollapseRuns(s2, {"-"}, "-")
    IN  StripDashes(s3)

kebab_name(first, last) ==
    LET full == Strip(JoinSpace(NonEmptyParts(
                    << Strip(OrEmpty(first)), Strip(OrEmpty(last)) >>)))
    IN  kebab_any(full)

derive_slug(user) ==
    LET fn == Strip(OrEmpty(user.firstName))
        ln == Strip(OrEmpty(user.lastName))
        full == Strip(OrEmpty(user.fullName))
        parts == Split(full)
        rest == IF Len(parts) > 1 THEN JoinSpace(Tail(parts)) ELSE <<>>
    IN  IF fn # <<>> \/ ln # <<>> THEN kebab_name(fn, ln)
        ELSE IF full # <<>>
             THEN IF kebab_any(full) # <<>> THEN kebab_any(full)
                  ELSE IF parts # <<>>
                       THEN kebab_name(Head(parts),
                                       IF rest # <<>> THEN rest ELSE None)
                       ELSE None
        ELSE None

(***************************************************************************)
(* Bounds of the model                                                     *)
(***************************************************************************)

\* Calls started in one behaviour, of any operation.
MaxCalls == 3

\* Attempts the transactional wrapper makes before it gives up.
MaxAttempts == 2

\* The value of a legacy stats.followers field, where a record carries one.
LegacyFollowers == 2

(***************************************************************************)
(* The store: the documents of the "users" collection                      *)
(***************************************************************************)

\* The documents that may be legacy documents carrying stats.followers.
LegacyCandidates == {"u1"}

\* Document ids of the collection.
Users == {"u1", "u2", "u3"}

\* An authenticated uid that has no document in the collection.
GhostUid == "u0"

\* The request handlers that run concurrently.
Procs == {"p1", "p2"}

\* Caller identities a request may carry ("" is the empty viewer id).
ViewerInputs == Users \cup {GhostUid, ""}

\* The slug the uid without a document asks for.
GhostSlug == <<"a", "l", "-", "d", "i">>

\* May a request carry this caller identity together with this target slug.
CallInput(viewer_uid, target_slug) ==
    viewer_uid = GhostUid => target_slug = GhostSlug

\* Target slugs a request may carry.
SlugInputs ==
    { <<>>,
      <<"a", "l", "-", "d", "i">>,
      <<" ", "B", "o", "-", "L", "i">>,
      <<"z", "z">> }

\* Orders in which the store may stream the collection.
Orders ==
    { o \in [1..Cardinality(Users) -> Users] :
        \A u \in Users : \E i \in DOMAIN o : o[i] = u }

\* The name fields and stored slug each document is created with.
Profile(u) ==
    CASE u = "u1" -> [firstName |-> <<"A", "l">>, lastName |-> <<"D", "i">>,
                      fullName |-> None, email |-> None, slug |-> None]
      [] u = "u2" -> [firstName |-> None, lastName |-> None,
                      fullName |-> <<"B", "o", " ", "L", "i">>, email |-> None,
                      slug |-> <<"b", "o", "-", "l", "i">>]
      [] OTHER    -> [firstName |-> None, lastName |-> None,
                      fullName |-> None, email |-> <<"c", "@", "x">>,
                      slug |-> <<"c", "y">>]

\* A document as created: the graph fields empty, the counter 0; stats is the
\* value of stats.followers (0 when the document has no such field).
NewUser(u, stats) ==
    [ firstName       |-> Profile(u).firstName,
      lastName        |-> Profile(u).lastName,
      fullName        |-> Profile(u).fullName,
      email           |-> Profile(u).email,
      slug            |-> Profile(u).slug,
      following       |-> {},
      followers       |-> {},
      followersCount  |-> 0,
      followersDetails |-> <<>>,
      statsFollowers  |-> stats ]

VARIABLES
    db,       \* db[u]: the document of user u
    ver,      \* ver[u]: the update time of document u (writes so far)
    pc,       \* pc[p]: where handler p is in its call
    call,     \* call[p]: the call handler p is running
    vsnap,    \* vsnap[p]: the viewer snapshot read in p's transaction, or
              \* what a slug operation has read and computed before it writes
    tsnap,    \* tsnap[p]: the target snapshot read in p's transaction
    ended,    \* how the call that ended in the step just taken ended
    writes,   \* the writes to the store, oldest first: the commits that
              \* wrote and the writes of the slug operations
    ncalls    \* calls started so far, of any operation

vars == <<db, ver, pc, call, vsnap, tsnap, ended, writes, ncalls>>

NoUser == "<none>"
NoCall == [op |-> "none", viewer |-> "", target |-> NoUser, attempts |-> 0]
NoSnap == [exists |-> FALSE, ver |-> 0]
NoResult ==
    [ exc |-> "no call ended", msg |-> "", op |-> "none", viewer |-> "",
      target |-> NoUser, attempts |-> 0, wrote |-> FALSE,
      isFollowing |-> FALSE, followersCount |-> 0,
      queried |-> FALSE, emptyTarget |-> FALSE, slug |-> None ]

(***************************************************************************)
(* Slug resolution                                                         *)
(***************************************************************************)

\* Mutant: the scan loop compares the stored slug only.
ScanMatch_SlugOnly(u, target) ==
    LET s == Strip(Lower(OrEmpty(u.slug)))
    IN  s # <<>> /\ s = target

\* The body of the scan loop: does record u match target by stored slug, by
\* the slug of firstName/lastName, by the slug of fullName, or by the split
\* fullName heuristic.
ScanMatch(u, target) ==
    LET s == Strip(Lower(OrEmpty(u.slug)))
        fn == Strip(OrEmpty(u.firstName))
        ln == Strip(OrEmpty(u.lastName))
        full == Strip(OrEmpty(u.fullName))
        parts == Split(full)
        rest == IF Len(parts) > 1 THEN JoinSpace(Tail(parts)) ELSE None
    IN  \/ s # <<>> /\ s = target
        \/ (fn # <<>> \/ ln # <<>>) /\ kebab_name(fn, ln) = target
        \/ full # <<>> /\ kebab_any(full) = target
        \/ /\ full # <<>>
           /\ ~(fn # <<>> \/ ln # <<>>)
           /\ parts # <<>>
           /\ kebab_name(Head(parts), rest) = target

\* The first id of the stream order that is in the set hits, or NoUser.
FirstOf(order, hits) ==
    LET found == SelectSeq(order, LAMBDA id : id \in hits)
    IN  IF found = <<>> THEN NoUser ELSE Head(found)

\* The documents where("slug", "==", target) selects.
FastHits(docs, target) == { id \in DOMAIN docs : docs[id].slug = target }

\* The documents the scan loop would return on.
ScanHits(docs, target) == { id \in DOMAIN docs : ScanMatch(docs[id], target) }

\* lower().strip() of the slug asked for.
SlugTarget(slug) == Strip(Lower(OrEmpty(slug)))

\* Mutant: a failing indexed query ends the lookup without a result.
Lookup_NoFallback(target, fast, scan, order, fastOk) ==
    IF target = <<>> \/ ~fastOk THEN NoUser
    ELSE IF fast # {} THEN FirstOf(order, fast)
    ELSE FirstOf(order, scan)

\* The lookup once the matching documents are known: the fast path takes the
\* first hit of the indexed query unless the query raises (fastOk = FALSE);
\* the scan returns the first matching document of the stream.
Lookup(target, fast, scan, order, fastOk) ==
    IF target = <<>> THEN NoUser
    ELSE IF fastOk /\ fast # {} THEN FirstOf(order, fast)
    ELSE FirstOf(order, scan)

\* get_user_by_slug over the documents docs: the id of the record returned,
\* or NoUser for None.  order is the order the store streams the collection
\* in; fastOk is FALSE when the indexed query raises.
get_user_by_slug(docs, slug, order, fastOk) ==
    LET target == SlugTarget(slug)
    IN  Lookup(target, FastHits(docs, target), ScanHits(docs, target),
               order, fastOk)

(***************************************************************************)
(* Follows: helpers                                                        *)
(***************************************************************************)

\* int(v) of a stored integer.
safe_int(v) == v

\* Mutant: the last resort is firstName alone, without email or "User".
best_full_name_NoFallback(user) ==
    LET fn == Strip(OrEmpty(user.firstName))
        ln == Strip(OrEmpty(user.lastName))
        full == Strip(OrEmpty(user.fullName))
    IN  IF fn # <<>> \/ ln # <<>>
        THEN Strip(JoinSpace(NonEmptyParts(<<fn, ln>>)))
        ELSE IF full # <<>> THEN full
        ELSE fn

best_full_name(user) ==
    LET fn == Strip(OrEmpty(user.firstName))
        ln == Strip(OrEmpty(user.lastName))
        full == Strip(OrEmpty(user.fullName))
    IN  IF fn # <<>> \/ ln # <<>>
        THEN Strip(JoinSpace(NonEmptyParts(<<fn, ln>>)))
        ELSE IF full # <<>> THEN full
        ELSE IF fn # <<>> THEN fn
        ELSE IF Truthy(user.email) THEN user.email
        ELSE <<"U", "s", "e", "r">>

ensure_slug_in_user(user) ==
    LET s == Strip(OrEmpty(user.slug))
    IN  IF s # <<>> THEN s
        ELSE IF Truthy(derive_slug(user)) THEN derive_slug(user) ELSE <<>>

\* Mutant: the list is replaced by the entry of the new follower alone.
upsert_follower_details_Only(current, new_entry) == <<new_entry>>

upsert_follower_details(current, new_entry) ==
    LET seen == \E i \in DOMAIN current : current[i].uid = new_entry.uid
        out == [i \in DOMAIN current |->
                  IF current[i].uid = new_entry.uid THEN new_entry
                  ELSE current[i]]
    IN  IF seen THEN out ELSE Append(out, new_entry)

\* Mutant: the entry of the unfollowing viewer is left in the list.
remove_follower_details_KeepAll(current, rm_uid) == current

remove_follower_details(current, rm_uid) ==
    SelectSeq(current, LAMBDA e : e.uid # rm_uid)

\* target.get("followersCount") or target.get("stats", {}).get("followers") or 0
ReadFollowersCount(target) ==
    safe_int(IF target.followersCount # 0 THEN target.followersCount
             ELSE IF target.statsFollowers # 0 THEN target.statsFollowers
             ELSE 0)

(***************************************************************************)
(* Follows: the transaction bodies                                         *)
(*                                                                         *)
(* Each body is given the two documents read inside the transaction and    *)
(* yields the writes it buffers and the value it returns.                  *)
(***************************************************************************)

\* Mutant: the body writes without looking at viewer.following.
tx_follow_NoGuard(viewer_uid, target_uid, viewer, target) ==
    [ wrote            |-> TRUE,
      following        |-> viewer.following \cup {target_uid},
      followers        |-> target.followers \cup {viewer_uid},
      followersCount   |-> target.followersCount + 1,
      followersDetails |->
          Append(target.followersDetails,
                 [ uid |-> viewer_uid, fullName |-> <<>>, slug |-> <<>> ]),
      isFollowing      |-> TRUE ]

tx_follow(viewer_uid, target_uid, viewer, target) ==
    LET followers_count == ReadFollowersCount(target)
        follower_entry == [ uid      |-> viewer_uid,
                            fullName |-> best_full_name(viewer),
                            slug     |-> ensure_slug_in_user(viewer) ]
    IN  IF target_uid \notin viewer.following
        THEN [ wrote            |-> TRUE,
               following        |-> viewer.following \cup {target_uid},
               followers        |-> target.followers \cup {viewer_uid},
               followersCount   |-> followers_count + 1,
               followersDetails |->
                   upsert_follower_details(target.followersDetails, follower_entry),
               isFollowing      |-> TRUE ]
        ELSE [ wrote            |-> FALSE,
               following        |-> viewer.following,
               followers        |-> target.followers,
               followersCount   |-> followers_count,
               followersDetails |-> target.followersDetails,
               isFollowing      |-> TRUE ]

\* Mutant: the unfollow body leaves the counter as it read it.
tx_unfollow_KeepCount(viewer_uid, target_uid, viewer, target) ==
    [ wrote            |-> target_uid \in viewer.following,
      following        |-> viewer.following \ {target_uid},
      followers        |-> target.followers \ {viewer_uid},
      followersCount   |-> target.followersCount,
      followersDetails |->
          remove_follower_details(target.followersDetails, viewer_uid),
      isFollowing      |-> FALSE ]

tx_unfollow(viewer_uid, target_uid, viewer, target) ==
    LET followers_count == ReadFollowersCount(target)
        dec == IF followers_count - 1 > 0 THEN followers_count - 1 ELSE 0
    IN  IF target_uid \in viewer.following
        THEN [ wrote            |-> TRUE,
               following        |-> viewer.following \ {target_uid},
               followers        |-> target.followers \ {viewer_uid},
               followersCount   |-> dec,
               followersDetails |->
                   remove_follower_details(target.followersDetails, viewer_uid),
               isFollowing      |-> FALSE ]
        ELSE [ wrote            |-> FALSE,
               following        |-> viewer.following,
               followers        |-> target.followers,
               followersCount   |-> followers_count,
               followersDetails |-> target.followersDetails,
               isFollowing      |-> FALSE ]

\* The body the call's operation runs.
TxBody(c, viewer, target) ==
    IF c.op = "follow" THEN tx_follow(c.viewer, c.target, viewer, target)
    ELSE tx_unfollow(c.viewer, c.target, viewer, target)

(***************************************************************************)
(* Initial state: every document as created, the legacy candidates with or *)
(* without a stats.followers value; no call running.                       *)
(***************************************************************************)

Init ==
    /\ \E legacy \in SUBSET LegacyCandidates :
          db = [u \in Users |->
                  NewUser(u, IF u \in legacy THEN LegacyFollowers ELSE 0)]
    /\ ver = [u \in Users |-> 0]
    /\ pc = [p \in Procs |-> "idle"]
    /\ call = [p \in Procs |-> NoCall]
    /\ vsnap = [p \in Procs |-> NoSnap]
    /\ tsnap = [p \in Procs |-> NoSnap]
    /\ ended = NoResult
    /\ writes = <<>>
    /\ ncalls = 0

\* How a call ends with an exception raised inside the transaction, after
\* attempts aborted attempts.  Such a call has resolved a slug that was not
\* empty (emptyTarget) by querying the collection (queried).
Raised(op, viewer_uid, target_uid, attempts, exc, msg) ==
    [ exc |-> exc, msg |-> msg, op |-> op, viewer |-> viewer_uid,
      target |-> target_uid, attempts |-> attempts, wrote |-> FALSE,
      isFollowing |-> FALSE, followersCount |-> 0,
      queried |-> TRUE, emptyTarget |-> FALSE, slug |-> None ]

\* Mutant: the collection is queried for every slug.
Queries_Always(slug) == TRUE

\* Does get_user_by_slug(slug) query the collection: it returns None before
\* the indexed query and the scan when lower().strip() of the slug is empty.
Queries(slug) == SlugTarget(slug) # <<>>

\* How a call ends with an exception raised before db.transaction(), given
\* the target slug and whether get_user_by_slug had queried the collection.
Rejected(op, viewer_uid, target_slug, target_uid, exc, msg, queried) ==
    [ Raised(op, viewer_uid, target_uid, 0, exc, msg) EXCEPT
        !.queried = queried,
        !.emptyTarget = (OrEmpty(target_slug) = <<>>) ]

\* How a call ends when its transaction has committed with the outcome out.
Returned(c, out) ==
    [ exc |-> "none", msg |-> "", op |-> c.op, viewer |-> c.viewer,
      target |-> c.target, attempts |-> c.attempts, wrote |-> out.wrote,
      isFollowing |-> out.isFollowing, followersCount |-> out.followersCount,
      queried |-> TRUE, emptyTarget |-> FALSE, slug |-> None ]

\* Mutant: the viewer id is not checked.
Unauthorized_Never(viewer_uid) == FALSE

\* if not viewer_uid
Unauthorized(viewer_uid) == viewer_uid = ""

\* Mutant: the self-target check is missing.
IsSelf_Never(viewer_uid, target_uid) == FALSE

\* if target_uid == viewer_uid
IsSelf(viewer_uid, target_uid) == target_uid = viewer_uid

\* Mutant: a self-target is reported as an unknown target.
SelfError_Lookup(op) == [exc |-> "LookupError", msg |-> "target not found"]

\* raise ValueError("cannot follow yourself" / "cannot unfollow yourself")
SelfError(op) ==
    [ exc |-> "ValueError",
      msg |-> IF op = "follow" THEN "cannot follow yourself"
              ELSE "cannot unfollow yourself" ]

\* The status api_follow / api_unfollow answer with when the call they make
\* ends with exc: except LookupError, except ValueError, except Exception.
HttpStatus(exc) ==
    CASE exc = "none"        -> 200
      [] exc = "LookupError" -> 404
      [] exc = "ValueError"  -> 400
      [] OTHER               -> 500

(***************************************************************************)
(* follow_user / unfollow_user up to db.transaction()                      *)
(***************************************************************************)

\* The ids get_user_by_slug may return for slug, over the orders the store
\* may stream in and with the indexed query working or raising.
Resolutions(slug) ==
    LET target == SlugTarget(slug)
        fast == FastHits(db, target)
        scan == ScanHits(db, target)
    IN  { Lookup(target, fast, scan, o, f) : o \in Orders, f \in BOOLEAN }

\* The call of handler p ends before a transaction is opened.
Reject(p, r) ==
    /\ ended' = r
    /\ UNCHANGED <<pc, call>>

\* tx = db.transaction(): handler p enters the transactional wrapper.
BeginTx(p, op, viewer_uid, target_uid) ==
    /\ pc' = [pc EXCEPT ![p] = "read_viewer"]
    /\ call' = [call EXCEPT ![p] =
                  [op |-> op, viewer |-> viewer_uid,
                   target |-> target_uid, attempts |-> 0]]
    /\ ended' = NoResult

follow_user(p) ==
    /\ pc[p] = "idle"
    /\ ncalls < MaxCalls
    /\ \E target_slug \in SlugInputs :
       \E target_uid \in Resolutions(target_slug), viewer_uid \in ViewerInputs :
        /\ CallInput(viewer_uid, target_slug)
        /\ ncalls' = ncalls + 1
        /\ IF Unauthorized(viewer_uid)
           THEN Reject(p, Rejected("follow", viewer_uid, target_slug, NoUser,
                                   "PermissionError", "unauthorized", FALSE))
           ELSE IF target_uid = NoUser
           THEN Reject(p, Rejected("follow", viewer_uid, target_slug, NoUser,
                                   "LookupError", "target not found",
                                   Queries(target_slug)))
           ELSE IF IsSelf(viewer_uid, target_uid)
           THEN Reject(p, Rejected("follow", viewer_uid, target_slug, target_uid,
                                   SelfError("follow").exc, SelfError("follow").msg,
                                   Queries(target_slug)))
           ELSE BeginTx(p, "follow", viewer_uid, target_uid)
        /\ UNCHANGED <<db, ver, vsnap, tsnap, writes>>

unfollow_user(p) ==
    /\ pc[p] = "idle"
    /\ ncalls < MaxCalls
    /\ \E target_slug \in SlugInputs :
       \E target_uid \in Resolutions(target_slug), viewer_uid \in ViewerInputs :
        /\ CallInput(viewer_uid, target_slug)
        /\ ncalls' = ncalls + 1
        /\ IF Unauthorized(viewer_uid)
           THEN Reject(p, Rejected("unfollow", viewer_uid, target_slug, NoUser,
                                   "PermissionError", "unauthorized", FALSE))
           ELSE IF target_uid = NoUser
           THEN Reject(p, Rejected("unfollow", viewer_uid, target_slug, NoUser,
                                   "LookupError", "target not found",
                                   Queries(target_slug)))
           ELSE IF IsSelf(viewer_uid, target_uid)
           THEN Reject(p, Rejected("unfollow", viewer_uid, target_slug, target_uid,
                                   SelfError("unfollow").exc, SelfError("unfollow").msg,
                                   Queries(target_slug)))
           ELSE BeginTx(p, "unfollow", viewer_uid, target_uid)
        /\ UNCHANGED <<db, ver, vsnap, tsnap, writes>>

(***************************************************************************)
(* The transaction: two reads, the body, and the commit of the buffered    *)
(* writes.  The store commits a transaction only if neither document it    *)
(* read has been written since; otherwise it aborts the attempt and the    *)
(* transactional wrapper runs the body again, MaxAttempts times at most.   *)
(***************************************************************************)

\* A transactional read of document id.
Snapshot(id) ==
    IF id \in Users
    THEN [exists |-> TRUE, ver |-> ver[id], doc |-> db[id]]
    ELSE NoSnap

\* viewer_ref.get(transaction=transaction)
TxReadViewer(p) ==
    /\ pc[p] = "read_viewer"
    /\ vsnap' = [vsnap EXCEPT ![p] = Snapshot(call[p].viewer)]
    /\ pc' = [pc EXCEPT ![p] = "read_target"]
    /\ ended' = NoResult
    /\ UNCHANGED <<db, ver, call, tsnap, writes, ncalls>>

\* Mutant: only the target snapshot is checked.
Missing_TargetOnly(viewer_snap, target_snap) == ~target_snap.exists

\* if not viewer_snap.exists or not target_snap.exists
Missing(viewer_snap, target_snap) ==
    ~viewer_snap.exists \/ ~target_snap.exists

\* target_ref.get(transaction=transaction) and the check that both exist: a
\* missing document raises ValueError("user not found") out of the wrapper.
TxReadTarget(p) ==
    LET snap == Snapshot(call[p].target)
    IN  /\ pc[p] = "read_target"
        /\ IF Missing(vsnap[p], snap)
           THEN /\ pc' = [pc EXCEPT ![p] = "idle"]
                /\ ended' = Raised(call[p].op, call[p].viewer, call[p].target,
                                  call[p].attempts, "ValueError", "user not found")
                /\ call' = [call EXCEPT ![p] = NoCall]
                /\ vsnap' = [vsnap EXCEPT ![p] = NoSnap]
                /\ UNCHANGED tsnap
           ELSE /\ pc' = [pc EXCEPT ![p] = "commit"]
                /\ tsnap' = [tsnap EXCEPT ![p] = snap]
                /\ ended' = NoResult
                /\ UNCHANGED <<call, vsnap>>
        /\ UNCHANGED <<db, ver, writes, ncalls>>

\* Has a document p's transaction read been written since it was read.
Stale(p) ==
    \/ ver[call[p].viewer] # vsnap[p].ver
    \/ ver[call[p].target] # tsnap[p].ver

\* Mutant: the target's followers list is not written.
ApplyWrites_DropFollowers(c, out) ==
    [db EXCEPT
        ![c.viewer].following = out.following,
        ![c.target].followersCount = out.followersCount,
        ![c.target].followersDetails = out.followersDetails]

\* Mutant: only the update of the viewer document is applied.
ApplyWrites_ViewerOnly(c, out) ==
    [db EXCEPT ![c.viewer].following = out.following]

\* Mutant: the slug derived for the follower snapshot is stored on the
\* viewer document as well.
ApplyWrites_PersistSlug(c, out) ==
    [db EXCEPT
        ![c.viewer].following = out.following,
        ![c.viewer].slug = ensure_slug_in_user(db[c.viewer]),
        ![c.target].followers = out.followers,
        ![c.target].followersCount = out.followersCount,
        ![c.target].followersDetails = out.followersDetails]

\* The two transaction.update calls of a body that wrote, applied together.
ApplyWrites(c, out) ==
    [db EXCEPT
        ![c.viewer].following = out.following,
        ![c.target].followers = out.followers,
        ![c.target].followersCount = out.followersCount,
        ![c.target].followersDetails = out.followersDetails]

\* The commit succeeds: the writes the body buffered become visible at once
\* and the call returns the body's result.
TxCommit(p) ==
    LET c == call[p]
        out == TxBody(c, vsnap[p].doc, tsnap[p].doc)
    IN  /\ pc[p] = "commit"
        /\ ~Stale(p)
        /\ IF out.wrote
           THEN /\ db' = ApplyWrites(c, out)
                /\ ver' = [ver EXCEPT ![c.viewer] = @ + 1, ![c.target] = @ + 1]
                /\ writes' = Append(writes,
                                [ op |-> c.op, viewer |-> c.viewer,
                                  target |-> c.target,
                                  before |-> db[c.target].followersCount ])
           ELSE UNCHANGED <<db, ver, writes>>
        /\ pc' = [pc EXCEPT ![p] = "idle"]
        /\ ended' = Returned(c, out)
        /\ call' = [call EXCEPT ![p] = NoCall]
        /\ vsnap' = [vsnap EXCEPT ![p] = NoSnap]
        /\ tsnap' = [tsnap EXCEPT ![p] = NoSnap]
        /\ UNCHANGED ncalls

\* Mutant: the wrapper gives up at the first aborted attempt.
Retries_Never(attempts) == FALSE

\* The wrapper runs the body again while fewer than MaxAttempts attempts
\* have been made, the aborted one included.
Retries(attempts) == attempts + 1 < MaxAttempts

\* The store aborts the attempt because of a conflicting commit: nothing is
\* written; the wrapper runs the body again, or raises once MaxAttempts
\* attempts have failed.
TxAbort(p) ==
    LET c == call[p]
    IN  /\ pc[p] = "commit"
        /\ Stale(p)
        /\ IF Retries(c.attempts)
           THEN /\ pc' = [pc EXCEPT ![p] = "read_viewer"]
                /\ call' = [call EXCEPT ![p].attempts = @ + 1]
                /\ ended' = NoResult
           ELSE /\ pc' = [pc EXCEPT ![p] = "idle"]
                /\ call' = [call EXCEPT ![p] = NoCall]
                /\ ended' = Raised(c.op, c.viewer, c.target, c.attempts + 1,
                                  "ValueError", "Failed to commit transaction")
        /\ vsnap' = [vsnap EXCEPT ![p] = NoSnap]
        /\ tsnap' = [tsnap EXCEPT ![p] = NoSnap]
        /\ UNCHANGED <<db, ver, writes, ncalls>>

\* What is left of a call at most, in steps: the reads and the commit of
\* the running attempt and three steps for every attempt the wrapper may
\* still make; 0 when no call is running.
Rank(at, c) ==
    IF at = "idle" THEN 0
    ELSE 3 * (MaxAttempts - 1 - c.attempts) +
         (CASE at = "read_viewer" -> 3
            [] at = "read_target" -> 2
            [] OTHER              -> 1)

Next ==
    \E p \in Procs :
        \/ follow_user(p)
        \/ unfollow_user(p)
        \/ TxReadViewer(p)
        \/ TxReadTarget(p)
        \/ TxCommit(p)
        \/ TxAbort(p)

Spec == Init /\ [][Next]_vars

(***************************************************************************)
(* Slug maintenance and upsert: api_me (get_user_by_uid, then              *)
(* ensure_user_slug), upsert_user and backfill_all_slugs.  None of them    *)
(* runs in a transaction: each reads in one step and writes what it        *)
(* computed from that read in a later step, so other handlers' steps come  *)
(* between.  Every write to a document moves its update time, which the    *)
(* store checks when a follow / unfollow transaction commits.              *)
(***************************************************************************)

\* The uids api_me is called with.
MeInputs == Users \cup {GhostUid}

\* The uids admin_upsert_user is called with.
UpsertUids == {"u1", "u2"}

\* The request bodies of admin_upsert_user, without the uid: the fields the
\* body names; None for a field it does not name.  No body names slug.
UpsertData ==
    { [ firstName |-> <<"C", "y">>, lastName |-> None, fullName |-> None,
        email |-> None, slug |-> None ],
      [ firstName |-> None, lastName |-> None, fullName |-> None,
        email |-> <<"c", "@", "x">>, slug |-> None ] }

\* The order in which a batch lists the documents it updates.
UserOrder == <<"u1", "u2", "u3">>

\* How a call of a slug operation for uid returns: did it write, and the
\* slug of the record it returns.
Done(op, uid, wrote, slug) ==
    [ NoResult EXCEPT
        !.exc = "none", !.op = op, !.viewer = uid, !.target = uid,
        !.wrote = wrote, !.slug = slug ]

\* A write to the one document uid by a slug operation, as logged.
SlugWrite(op, uid) ==
    [ op |-> op, viewer |-> uid, target |-> uid,
      before |-> db[uid].followersCount ]

\* Mutant: the slug is derived and written whether or not the record has one.
ensure_user_slug_Regenerate(uid, user) ==
    LET s == derive_slug(user)
    IN  [ wrote |-> Truthy(s), slug |-> IF Truthy(s) THEN s ELSE user.slug ]

\* ensure_user_slug(uid, user): whether it calls update({"slug": s}), and
\* the slug of the record it returns.
ensure_user_slug(uid, user) ==
    IF Truthy(user.slug) THEN [wrote |-> FALSE, slug |-> user.slug]
    ELSE LET s == derive_slug(user)
         IN  IF Truthy(s) THEN [wrote |-> TRUE, slug |-> s]
             ELSE [wrote |-> FALSE, slug |-> user.slug]

\* api_me up to the call of ensure_user_slug: user = get_user_by_uid(uid),
\* answered 404 when the document does not exist.
api_me_get_user(p) ==
    /\ pc[p] = "idle"
    /\ ncalls < MaxCalls
    /\ \E uid \in MeInputs :
        /\ ncalls' = ncalls + 1
        /\ IF Snapshot(uid).exists
           THEN /\ pc' = [pc EXCEPT ![p] = "ensure"]
                /\ call' = [call EXCEPT ![p] =
                              [op |-> "ensure_user_slug", viewer |-> uid,
                               target |-> uid, attempts |-> 0]]
                /\ vsnap' = [vsnap EXCEPT ![p] = Snapshot(uid)]
                /\ ended' = NoResult
           ELSE /\ ended' = [Done("get_user_by_uid", uid, FALSE, None)
                               EXCEPT !.msg = "not found"]
                /\ UNCHANGED <<pc, call, vsnap>>
    /\ UNCHANGED <<db, ver, tsnap, writes>>

\* user = ensure_user_slug(uid, user) on the record api_me has read.
api_me_ensure_slug(p) ==
    LET uid == call[p].viewer
        out == ensure_user_slug(uid, vsnap[p].doc)
    IN  /\ pc[p] = "ensure"
        /\ IF out.wrote
           THEN /\ db' = [db EXCEPT ![uid].slug = out.slug]
                /\ ver' = [ver EXCEPT ![uid] = @ + 1]
                /\ writes' = Append(writes, SlugWrite("ensure_user_slug", uid))
           ELSE UNCHANGED <<db, ver, writes>>
        /\ pc' = [pc EXCEPT ![p] = "idle"]
        /\ call' = [call EXCEPT ![p] = NoCall]
        /\ vsnap' = [vsnap EXCEPT ![p] = NoSnap]
        /\ ended' = Done("ensure_user_slug", uid, out.wrote, out.slug)
        /\ UNCHANGED <<tsnap, ncalls>>

\* merged = {**existing, **(data or {})}, with the slug derived from merged
\* when merged has none.
upsert_merged(existing, data) ==
    LET merged == [ existing EXCEPT
                      !.firstName = IF data.firstName # None THEN data.firstName ELSE @,
                      !.lastName  = IF data.lastName # None THEN data.lastName ELSE @,
                      !.fullName  = IF data.fullName # None THEN data.fullName ELSE @,
                      !.email     = IF data.email # None THEN data.email ELSE @,
                      !.slug      = IF data.slug # None THEN data.slug ELSE @ ]
        s == derive_slug(merged)
    IN  IF ~Truthy(merged.slug) /\ Truthy(s) THEN [merged EXCEPT !.slug = s]
        ELSE merged

\* doc_ref.set(merged, merge=True) on the stored document: every field that
\* merged holds replaces the stored one, the graph fields among them; a
\* field merged does not hold is left as stored.
set_merge(stored, merged) ==
    [ stored EXCEPT
        !.firstName = IF merged.firstName # None THEN merged.firstName ELSE @,
        !.lastName  = IF merged.lastName # None THEN merged.lastName ELSE @,
        !.fullName  = IF merged.fullName # None THEN merged.fullName ELSE @,
        !.email     = IF merged.email # None THEN merged.email ELSE @,
        !.slug      = IF merged.slug # None THEN merged.slug ELSE @,
        !.following = merged.following,
        !.followers = merged.followers,
        !.followersCount = merged.followersCount,
        !.followersDetails = merged.followersDetails,
        !.statsFollowers = IF merged.statsFollowers # 0
                           THEN merged.statsFollowers ELSE @ ]

\* upsert_user up to doc_ref.set: existing = doc_ref.get().to_dict() and
\* the computation of merged.
upsert_user_get(p) ==
    /\ pc[p] = "idle"
    /\ ncalls < MaxCalls
    /\ \E uid \in UpsertUids, data \in UpsertData :
        /\ ncalls' = ncalls + 1
        /\ pc' = [pc EXCEPT ![p] = "upsert"]
        /\ call' = [call EXCEPT ![p] =
                      [op |-> "upsert_user", viewer |-> uid,
                       target |-> uid, attempts |-> 0]]
        /\ vsnap' = [vsnap EXCEPT ![p] =
                       [ exists |-> TRUE, ver |-> ver[uid],
                         doc |-> upsert_merged(db[uid], data) ]]
    /\ ended' = NoResult
    /\ UNCHANGED <<db, ver, tsnap, writes>>

\* doc_ref.set(merged, merge=True) and the return of merged.
upsert_user_set(p) ==
    LET uid == call[p].viewer
        merged == vsnap[p].doc
    IN  /\ pc[p] = "upsert"
        /\ db' = [db EXCEPT ![uid] = set_merge(@, merged)]
        /\ ver' = [ver EXCEPT ![uid] = @ + 1]
        /\ writes' = Append(writes, SlugWrite("upsert_user", uid))
        /\ pc' = [pc EXCEPT ![p] = "idle"]
        /\ call' = [call EXCEPT ![p] = NoCall]
        /\ vsnap' = [vsnap EXCEPT ![p] = NoSnap]
        /\ ended' = Done("upsert_user", uid, TRUE, merged.slug)
        /\ UNCHANGED <<tsnap, ncalls>>

\* The body of the backfill loop over the streamed documents: the slug the
\* batch is to store for each document that has none and for which a slug
\* can be derived; None for the documents it leaves alone.
backfill_updates(docs) ==
    [ u \in DOMAIN docs |->
        IF ~Truthy(docs[u].slug) /\ Truthy(derive_slug(docs[u]))
        THEN derive_slug(docs[u]) ELSE None ]

\* backfill_all_slugs up to batch.commit(): the stream of the collection
\* and the updates put in the batch.
backfill_stream(p) ==
    /\ pc[p] = "idle"
    /\ ncalls < MaxCalls
    /\ ncalls' = ncalls + 1
    /\ pc' = [pc EXCEPT ![p] = "backfill"]
    /\ call' = [call EXCEPT ![p] =
                  [op |-> "backfill_all_slugs", viewer |-> NoUser,
                   target |-> NoUser, attempts |-> 0]]
    /\ vsnap' = [vsnap EXCEPT ![p] =
                   [exists |-> TRUE, ver |-> 0, doc |-> backfill_updates(db)]]
    /\ ended' = NoResult
    /\ UNCHANGED <<db, ver, tsnap, writes>>

\* if ops: batch.commit(), and the return.
backfill_commit(p) ==
    LET updates == vsnap[p].doc
        updated == { u \in Users : updates[u] # None }
    IN  /\ pc[p] = "backfill"
        /\ db' = [u \in Users |->
                    IF u \in updated THEN [db[u] EXCEPT !.slug = updates[u]]
                    ELSE db[u]]
        /\ ver' = [u \in Users |-> IF u \in updated THEN ver[u] + 1 ELSE ver[u]]
        /\ writes' = writes \o
                [ i \in 1..Len(SelectSeq(UserOrder, LAMBDA u : u \in updated)) |->
                    SlugWrite("backfill_all_slugs",
                              SelectSeq(UserOrder, LAMBDA u : u \in updated)[i]) ]
        /\ pc' = [pc EXCEPT ![p] = "idle"]
        /\ call' = [call EXCEPT ![p] = NoCall]
        /\ vsnap' = [vsnap EXCEPT ![p] = NoSnap]
        /\ ended' = Done("backfill_all_slugs", NoUser, updated # {}, None)
        /\ UNCHANGED <<tsnap, ncalls>>

\* The slug operations alone: api_me, admin_upsert_user and
\* admin_backfill_slugs running concurrently.
SlugNext ==
    \E p \in Procs :
        \/ api_me_get_user(p)
        \/ api_me_ensure_slug(p)
        \/ upsert_user_get(p)
        \/ upsert_user_set(p)
        \/ backfill_stream(p)
        \/ backfill_commit(p)

SlugSpec == Init /\ [][SlugNext]_vars

\* All the request handlers of config.py that write user documents, running
\* concurrently.
MaintNext ==
    \E p \in Procs :
        \/ follow_user(p)
        \/ unfollow_user(p)
        \/ TxReadViewer(p)
        \/ TxReadTarget(p)
        \/ TxCommit(p)
        \/ TxAbort(p)
        \/ api_me_get_user(p)
        \/ api_me_ensure_slug(p)
        \/ upsert_user_get(p)
        \/ upsert_user_set(p)
        \/ backfill_stream(p)
        \/ backfill_commit(p)

MaintSpec == Init /\ [][MaintNext]_vars

(***************************************************************************)
(* Slug resolution on its own: GET /api/users/<slug> over collections in   *)
(* which several documents match one slug.                                 *)
(***************************************************************************)

\* The stored slugs document u2 may have: its own, or none.
ResolveSlugs2 == {Profile("u2").slug, None}

\* The stored slugs document u3 may have: its own, or the slug that the
\* names of u1 derive to.
ResolveSlugs3 == {Profile("u3").slug, GhostSlug}

\* A slug of white space only.
BlankSlug == <<" ", " ">>

\* The slugs GET /api/users/<slug> is asked for.
LookupSlugs == SlugInputs \cup {BlankSlug}

ResolveInit ==
    /\ \E s2 \in ResolveSlugs2, s3 \in ResolveSlugs3 :
          db = [u \in Users |->
                  IF u = "u2" THEN [NewUser(u, 0) EXCEPT !.slug = s2]
                  ELSE IF u = "u3" THEN [NewUser(u, 0) EXCEPT !.slug = s3]
                  ELSE NewUser(u, 0)]
    /\ ver = [u \in Users |-> 0]
    /\ pc = [p \in Procs |-> "idle"]
    /\ call = [p \in Procs |-> NoCall]
    /\ vsnap = [p \in Procs |-> NoSnap]
    /\ tsnap = [p \in Procs |-> NoSnap]
    /\ ended = NoResult
    /\ writes = <<>>
    /\ ncalls = 0

\* How a call of get_user_by_slug returns: the id of the record found as
\* target (NoUser for None), with the slug asked for, the order the store
\* streamed the collection in and whether the indexed query worked.
Resolved(slug, order, fastOk, found) ==
    [ NoResult EXCEPT
        !.exc = "none", !.op = "get_user_by_slug", !.target = found,
        !.msg = IF found = NoUser THEN "not found" ELSE "",
        !.queried = Queries(slug),
        !.emptyTarget = (OrEmpty(slug) = <<>>) ]
    @@ [ slugIn |-> slug, order |-> order, fastOk |-> fastOk ]

\* api_user_by_slug: user = get_user_by_slug(slug), answered 404 for None.
api_user_by_slug(p) ==
    /\ pc[p] = "idle"
    /\ ncalls < MaxCalls
    /\ \E slug \in LookupSlugs, order \in Orders, fastOk \in BOOLEAN :
          ended' = Resolved(slug, order, fastOk,
                            get_user_by_slug(db, slug, order, fastOk))
    /\ ncalls' = ncalls + 1
    /\ UNCHANGED <<db, ver, pc, call, vsnap, tsnap, writes>>

ResolveNext == \E p \in Procs : api_user_by_slug(p)

ResolveSpec == ResolveInit /\ [][ResolveNext]_vars

(***************************************************************************)
(* The backfill sweep with its batches: backfill_all_slugs(batch_size)     *)
(* over collections where any of the documents may lack a slug, each       *)
(* batch.commit() a step of its own that the store may fail.               *)
(***************************************************************************)

\* The values of batch_size the sweep is called with.  Any value from the
\* number of updates up gives one batch, as the default of 400 does.
BatchSizes == {1, 2}

\* A stored slug that is not the one the names of the document derive to.
StaleSlug == <<"z", "z">>

\* The stored slugs a document may have when a sweep starts.
BackfillSlugs(u) ==
    IF u = "u1" THEN {None, StaleSlug} ELSE {Profile(u).slug, None}

BackfillInit ==
    /\ \E slugs \in [Users -> {None, StaleSlug} \cup {Profile(u).slug : u \in Users}] :
          /\ \A u \in Users : slugs[u] \in BackfillSlugs(u)
          /\ db = [u \in Users |-> [NewUser(u, 0) EXCEPT !.slug = slugs[u]]]
    /\ ver = [u \in Users |-> 0]
    /\ pc = [p \in Procs |-> "idle"]
    /\ call = [p \in Procs |-> NoCall]
    /\ vsnap = [p \in Procs |-> NoSnap]
    /\ tsnap = [p \in Procs |-> NoSnap]
    /\ ended = NoResult
    /\ writes = <<>>
    /\ ncalls = 0

\* Mutant: the loop updates every document a slug can be derived for.
backfill_todo_All(docs, order) ==
    SelectSeq(order, LAMBDA u : Truthy(derive_slug(docs[u])))

\* The documents the loop calls batch.update for, in the order of the
\* stream: those without a slug for which derive_slug gives one.
backfill_todo(docs, order) ==
    SelectSeq(order, LAMBDA u : ~Truthy(docs[u].slug)
                                /\ Truthy(derive_slug(docs[u])))

\* Mutant: the loop never commits, all updates go into the final batch.
NextBatch_All(todo, batch_size) == todo

\* The updates of the next batch.commit(): ops reaches batch_size after
\* batch_size updates, and the last batch holds what is left.
NextBatch(todo, batch_size) ==
    SubSeq(todo, 1, IF Len(todo) < batch_size THEN Len(todo) ELSE batch_size)

\* The local state of a sweep after the stream: the documents as streamed,
\* the updates not yet committed, the documents of the committed batches,
\* the counter updated, and whether every write to the collection since
\* the stream has been a commit of this sweep (vers is the versions after
\* its last step).
Sweep(docs, order, batch_size) ==
    [ docs |-> docs, todo |-> backfill_todo(docs, order),
      batch_size |-> batch_size, committed |-> {}, updated |-> 0,
      vers |-> ver, alone |-> TRUE ]

\* How a sweep ends: return updated, or the exception of a failed commit.
Swept(exc, sw) ==
    [ NoResult EXCEPT
        !.exc = exc, !.op = "backfill_all_slugs",
        !.wrote = (sw.committed # {}) ]
    @@ [ updated |-> sw.updated, before |-> sw.docs,
         committed |-> sw.committed, alone |-> sw.alone,
         batch_size |-> sw.batch_size ]

\* backfill_all_slugs(batch_size) up to its first batch.commit(): the stream
\* of the collection.  With nothing to update it returns 0 at once.
backfill_all_slugs(p) ==
    /\ pc[p] = "idle"
    /\ ncalls < MaxCalls
    /\ ncalls' = ncalls + 1
    /\ \E batch_size \in BatchSizes, order \in Orders :
          LET sw == Sweep(db, order, batch_size)
          IN  IF sw.todo = <<>>
              THEN /\ ended' = Swept("none", sw)
                   /\ UNCHANGED <<pc, call, vsnap>>
              ELSE /\ pc' = [pc EXCEPT ![p] = "batch"]
                   /\ call' = [call EXCEPT ![p] =
                                 [op |-> "backfill_all_slugs", viewer |-> NoUser,
                                  target |-> NoUser, attempts |-> 0]]
                   /\ vsnap' = [vsnap EXCEPT ![p] =
                                  [exists |-> TRUE, ver |-> 0, doc |-> sw]]
                   /\ ended' = NoResult
    /\ UNCHANGED <<db, ver, tsnap, writes>>

\* batch.commit() succeeds: the updates of the batch are stored together;
\* after the last batch the sweep returns updated.
batch_commit(p) ==
    /\ pc[p] = "batch"
    /\ LET sw == vsnap[p].doc
           batch == NextBatch(sw.todo, sw.batch_size)
           ids == { batch[i] : i \in DOMAIN batch }
           rest == SubSeq(sw.todo, Len(batch) + 1, Len(sw.todo))
           vers == [u \in Users |-> IF u \in ids THEN ver[u] + 1 ELSE ver[u]]
           sw2 == [sw EXCEPT !.todo = rest, !.committed = @ \cup ids,
                             !.updated = @ + Len(batch), !.vers = vers,
                             !.alone = @ /\ ver = sw.vers]
       IN  /\ db' = [u \in Users |->
                       IF u \in ids
                       THEN [db[u] EXCEPT !.slug = derive_slug(sw.docs[u])]
                       ELSE db[u]]
           /\ ver' = vers
           /\ writes' = writes \o
                   [i \in DOMAIN batch |->
                       SlugWrite("backfill_all_slugs", batch[i])]
           /\ IF rest = <<>>
              THEN /\ pc' = [pc EXCEPT ![p] = "idle"]
                   /\ call' = [call EXCEPT ![p] = NoCall]
                   /\ vsnap' = [vsnap EXCEPT ![p] = NoSnap]
                   /\ ended' = Swept("none", sw2)
              ELSE /\ vsnap' = [vsnap EXCEPT ![p].doc = sw2]
                   /\ UNCHANGED <<pc, call, ended>>
    /\ UNCHANGED <<tsnap, ncalls>>

\* batch.commit() raises: nothing of the batch is stored and the exception
\* leaves backfill_all_slugs.
batch_commit_raises(p) ==
    /\ pc[p] = "batch"
    /\ pc' = [pc EXCEPT ![p] = "idle"]
    /\ call' = [call EXCEPT ![p] = NoCall]
    /\ vsnap' = [vsnap EXCEPT ![p] = NoSnap]
    /\ ended' = Swept("Exception",
                      [vsnap[p].doc EXCEPT !.alone = @ /\ ver = vsnap[p].doc.vers])
    /\ UNCHANGED <<db, ver, tsnap, writes, ncalls>>

BackfillNext ==
    \E p \in Procs :
        \/ backfill_all_slugs(p)
        \/ batch_commit(p)
        \/ batch_commit_raises(p)

BackfillSpec == BackfillInit /\ [][BackfillNext]_vars

(***************************************************************************)
(* The slug functions over bounded names: the sweep applied to collections *)
(* in which the name fields of u1 are any strings up to a length.          *)
(***************************************************************************)

\* The longest fullName drawn.
MaxNameLen == 3

\* The characters names are made of: a letter in both cases, a digit, a
\* space, a hyphen and a character that _slug_strip_re removes.
NameChars == {"A", "a", "1", " ", "-", "@"}

\* The strings over NameChars of length n at most.
RECURSIVE Strs(_)
Strs(n) ==
    IF n <= 0 THEN { <<>> }
    ELSE LET shorter == Strs(n - 1)
         IN  shorter \cup { Append(t, c) : t \in { x \in shorter : Len(x) = n - 1 },
                                           c \in NameChars }

\* The name fields u1 is created with: a fullName alone, or a firstName and
\* a lastName of shorter strings next to a fullName or none.
NameRecords ==
    { [firstName |-> None, lastName |-> None, fullName |-> full] :
        full \in Strs(MaxNameLen) \cup {None} }
    \cup
    { [firstName |-> fn, lastName |-> ln, fullName |-> full] :
        fn \in Strs(MaxNameLen - 2) \cup {None},
        ln \in Strs(MaxNameLen - 2) \cup {None},
        full \in {None, Profile("u2").fullName} }

NameInit ==
    /\ \E names \in NameRecords :
          db = [u \in Users |->
                  IF u = "u1"
                  THEN [NewUser(u, 0) EXCEPT !.firstName = names.firstName,
                                             !.lastName = names.lastName,
                                             !.fullName = names.fullName]
                  ELSE NewUser(u, 0)]
    /\ ver = [u \in Users |-> 0]
    /\ pc = [p \in Procs |-> "idle"]
    /\ call = [p \in Procs |-> NoCall]
    /\ vsnap = [p \in Procs |-> NoSnap]
    /\ tsnap = [p \in Procs |-> NoSnap]
    /\ ended = NoResult
    /\ writes = <<>>
    /\ ncalls = 0

NameSpec == NameInit /\ [][BackfillNext]_vars

(***************************************************************************)
(* The follower snapshot over the name fields of the viewer: one handler   *)
(* following and unfollowing, u1 created with each of its name fields and  *)
(* its email absent, blank or present.                                     *)
(***************************************************************************)

\* A field that holds white space only.
Blank == <<" ">>

\* The name fields and email u1 may be created with.
DetailRecords ==
    { [firstName |-> fn, lastName |-> ln, fullName |-> full, email |-> em] :
        fn \in {None, Blank, Profile("u1").firstName},
        ln \in {None, Blank, Profile("u1").lastName},
        full \in {None, Blank, Profile("u2").fullName},
        em \in {None, Blank, Profile("u3").email} }

DetailInit ==
    /\ \E names \in DetailRecords :
          db = [u \in Users |->
                  IF u = "u1"
                  THEN [NewUser(u, 0) EXCEPT !.firstName = names.firstName,
                                             !.lastName = names.lastName,
                                             !.fullName = names.fullName,
                                             !.email = names.email]
                  ELSE NewUser(u, 0)]
    /\ ver = [u \in Users |-> 0]
    /\ pc = [p \in Procs |-> "idle"]
    /\ call = [p \in Procs |-> NoCall]
    /\ vsnap = [p \in Procs |-> NoSnap]
    /\ tsnap = [p \in Procs |-> NoSnap]
    /\ ended = NoResult
    /\ writes = <<>>
    /\ ncalls = 0

\* The handler that serves the requests one after the other.
DetailProc == "p1"

DetailNext ==
    \/ follow_user(DetailProc)
    \/ unfollow_user(DetailProc)
    \/ TxReadViewer(DetailProc)
    \/ TxReadTarget(DetailProc)
    \/ TxCommit(DetailProc)

DetailSpec == DetailInit /\ [][DetailNext]_vars

(***************************************************************************)
(* Properties of the follow graph                                          *)
(***************************************************************************)

\* The uids that have an entry in a followersDetails list.
DetailUids(details) == { details[i].uid : i \in DOMAIN details }

\* The step is the successful commit of handler p's transaction.
Committed(p) == pc[p] = "commit" /\ pc'[p] = "idle" /\ ended'.exc = "none"

\* The step is a call of follow_user or unfollow_user up to the point where
\* it is rejected or opens its transaction.
CallStarts == ncalls' = ncalls + 1

\* C1. Symmetry: in every reachable state, for all users v and t, t is in
\* v.following exactly when v is in t.followers.
C1_Symmetry ==
    \A v \in Users, t \in Users :
        t \in db[v].following <=> v \in db[t].followers

\* A follow that had been aborted and retried has committed its writes.
C1_Witness ==
    /\ ended.exc = "none" /\ ended.op = "follow" /\ ended.wrote
    /\ ended.attempts > 0
    /\ ended.target \in db[ended.viewer].following

\* C2. Counter invariant: in every reachable state the stored followersCount
\* of every user equals the number of ids in its followers.
C2_CounterEqualsFollowers ==
    \A t \in Users : db[t].followersCount = Cardinality(db[t].followers)

\* C3. Detail cache: in every reachable state the uids of t.followersDetails
\* are exactly t.followers, and no uid has two entries.
C3_DetailsMatchFollowers ==
    \A t \in Users :
        /\ DetailUids(db[t].followersDetails) = db[t].followers
        /\ Len(db[t].followersDetails) = Cardinality(db[t].followers)

\* An unfollow has committed its writes and left a target that still has a
\* follower with a detail entry.
C3_Witness ==
    /\ ended.exc = "none" /\ ended.op = "unfollow" /\ ended.wrote
    /\ db[ended.target].followersDetails # <<>>

\* C4. Follow postcondition: right after follow_user(A, B) commits its
\* writes, B is in A.following, A is in B.followers, B.followersCount is the
\* value stored before the commit plus 1, and B.followersDetails has an
\* entry for A with A's display name and slug.
C4_FollowPostcondition ==
    (writes # <<>> /\ writes[Len(writes)].op = "follow") =>
        LET w == writes[Len(writes)]
            A == w.viewer
            B == w.target
        IN  /\ B \in db[A].following
            /\ A \in db[B].followers
            /\ db[B].followersCount = w.before + 1
            /\ \E i \in DOMAIN db[B].followersDetails :
                  db[B].followersDetails[i] =
                      [ uid |-> A, fullName |-> best_full_name(db[A]),
                        slug |-> ensure_slug_in_user(db[A]) ]

\* C5. Follow idempotence: a follow_user(A, B) that commits leaves B in
\* A.following, and one that finds B already in A.following writes nothing
\* and returns isFollowing with the stored followersCount.
C5_FollowIdempotent ==
    [][ \A p \in Procs :
          (Committed(p) /\ call[p].op = "follow") =>
            /\ call[p].target \in db'[call[p].viewer].following
            /\ call[p].target \in db[call[p].viewer].following =>
                 /\ db' = db /\ ver' = ver /\ writes' = writes
                 /\ ~ended'.wrote
                 /\ ended'.isFollowing
                 /\ ended'.followersCount = db[call[p].target].followersCount
      ]_vars

\* A second follow_user(A, B) has returned on the no-op path.
C5_Witness ==
    /\ ended.exc = "none" /\ ended.op = "follow" /\ ~ended.wrote
    /\ \E i \in DOMAIN writes :
          /\ writes[i].op = "follow"
          /\ writes[i].viewer = ended.viewer
          /\ writes[i].target = ended.target

\* C6. Round trip: when the last two commits that wrote are follow_user(A, B)
\* and then unfollow_user(A, B), B.followersCount is the value stored before
\* the follow and B.followersDetails has no entry for A.
C6_RoundTrip ==
    LET n == Len(writes)
    IN  ( /\ n >= 2
          /\ writes[n - 1].op = "follow" /\ writes[n].op = "unfollow"
          /\ writes[n - 1].viewer = writes[n].viewer
          /\ writes[n - 1].target = writes[n].target ) =>
            /\ db[writes[n].target].followersCount = writes[n - 1].before
            /\ writes[n].viewer \notin
                  DetailUids(db[writes[n].target].followersDetails)

\* C7. No lost update: when the only commits that wrote are the follows of
\* one target B by two distinct viewers, B.followers holds both viewers,
\* B.followersCount is its initial value plus 2 and B.followersDetails has an
\* entry for each.
C7_NoLostUpdate ==
    ( /\ Len(writes) = 2
      /\ writes[1].op = "follow" /\ writes[2].op = "follow"
      /\ writes[1].target = writes[2].target
      /\ writes[1].viewer # writes[2].viewer ) =>
        LET B == writes[1].target
            both == {writes[1].viewer, writes[2].viewer}
        IN  /\ both \subseteq db[B].followers
            /\ db[B].followersCount = writes[1].before + 2
            /\ both \subseteq DetailUids(db[B].followersDetails)

\* C8. No self-edges: no user id is in its own following or followers, and
\* no transaction is open for a call whose target is its viewer.
C8_NoSelfEdges ==
    /\ \A u \in Users : u \notin db[u].following /\ u \notin db[u].followers
    /\ \A p \in Procs : pc[p] # "idle" => call[p].viewer # call[p].target

\* unfollow_user has rejected a target that resolved to the viewer.
C8_Witness ==
    /\ ended.op = "unfollow" /\ ended.viewer \in Users
    /\ ended.target = ended.viewer
    /\ ended.exc = "ValueError"

\* C9. follow_user(A, A): a call whose target slug resolves to the viewer's
\* own id opens no transaction, ends with ValueError("cannot follow
\* yourself") and leaves the store unchanged.
C9_SelfFollowRejected ==
    [][ CallStarts =>
          /\ \A p \in Procs :
                pc'[p] # pc[p] => call'[p].viewer # call'[p].target
          /\ (ended'.op = "follow" /\ ended'.target = ended'.viewer) =>
                /\ ended'.exc = "ValueError"
                /\ ended'.msg = "cannot follow yourself"
                /\ db' = db /\ ver' = ver
      ]_vars

\* follow_user has been called by a user with a slug that resolves to them.
C9_Witness ==
    /\ ended.op = "follow" /\ ended.viewer \in Users
    /\ ended.target = ended.viewer

\* C10. Unfollow no-op: an unfollow_user(A, B) that commits when B is not in
\* A.following writes nothing and returns isFollowing false with B's stored
\* followersCount.
C10_UnfollowNoop ==
    [][ \A p \in Procs :
          ( /\ Committed(p) /\ call[p].op = "unfollow"
            /\ call[p].target \notin db[call[p].viewer].following ) =>
              /\ db' = db /\ ver' = ver /\ writes' = writes
              /\ ~ended'.wrote
              /\ ~ended'.isFollowing
              /\ ended'.followersCount = db[call[p].target].followersCount
      ]_vars

(***************************************************************************)
(* Failure semantics of follow_user / unfollow_user                        *)
(***************************************************************************)

\* C11. Missing record: when the viewer or the target document does not
\* exist at the transactional reads, the step that has read both ends the
\* call with an exception and writes nothing, and no call of a viewer or a
\* target without a document ever changes a document.
C11_MissingRecordNoWrite ==
    [][ \A p \in Procs :
          /\ ( /\ pc[p] = "read_target" /\ pc'[p] # pc[p]
               /\ (~vsnap[p].exists \/ ~Snapshot(call[p].target).exists) ) =>
                 /\ pc'[p] = "idle"
                 /\ ended'.exc \notin {"none", "no call ended"}
                 /\ db' = db /\ ver' = ver /\ writes' = writes
          /\ ( /\ pc[p] # "idle" /\ pc'[p] # pc[p]
               /\ (call[p].viewer \notin Users \/ call[p].target \notin Users) ) =>
                 db' = db /\ ver' = ver /\ writes' = writes
      ]_vars

\* A transaction of a viewer without a document has ended on the check,
\* while the target has a follower written by another call.
C11_Witness ==
    /\ ended.msg = "user not found"
    /\ ended.viewer \notin Users
    /\ db[ended.target].followers # {}

\* C12. Missing record is NotFound: a call that ends because a document was
\* missing at the transactional reads ends with the exception of an
\* unresolved slug (LookupError, answered 404), which is not the exception
\* of a self-follow (ValueError, answered 400).
C12_MissingIsNotFound ==
    ended.msg = "user not found" =>
        /\ ended.exc = "LookupError"
        /\ HttpStatus(ended.exc) = 404
        /\ ended.exc # SelfError(ended.op).exc

\* C13. Unauthorized: a call of follow_user or unfollow_user with an empty
\* viewer id ends with PermissionError("unauthorized") in its first step,
\* before get_user_by_slug has queried the collection, opens no transaction
\* and leaves every document unchanged.
C13_UnauthorizedFirst ==
    [][ CallStarts =>
          /\ \A p \in Procs : pc'[p] # pc[p] => call'[p].viewer # ""
          /\ (ended'.op # "none" /\ ended'.viewer = "") =>
                /\ ended'.exc = "PermissionError"
                /\ ended'.msg = "unauthorized"
                /\ ~ended'.queried
                /\ db' = db /\ ver' = ver /\ writes' = writes
      ]_vars

\* unfollow_user has rejected an empty viewer id that asked for a slug some
\* document matches, in a store where a follow has been written.
C13_Witness ==
    /\ ended.exc = "PermissionError" /\ ended.op = "unfollow"
    /\ ended.viewer = "" /\ ~ended.emptyTarget
    /\ writes # <<>>

\* C14. Validation before any read: a call by a non-empty viewer id whose
\* target slug is empty, or whose target resolves to the viewer, ends with
\* the exception of the Validation kind (ValueError) and without
\* get_user_by_slug having queried the collection.
C14_ValidationBeforeRead ==
    ( /\ ended.op \in {"follow", "unfollow"}
      /\ ended.viewer # ""
      /\ (ended.emptyTarget \/ ended.target = ended.viewer) ) =>
        /\ ended.exc = "ValueError"
        /\ ~ended.queried

C16_SamePairRace ==
    LET n == Len(writes)
        A == ended.viewer
        B == ended.target
    IN  ( /\ ended.op \in {"follow", "unfollow"}
          /\ ended.exc = "none" /\ ~ended.wrote /\ ended.attempts > 0
          /\ n >= 1
          /\ writes[n].op = ended.op
          /\ writes[n].viewer = A /\ writes[n].target = B ) =>
            IF ended.op = "follow"
            THEN /\ B \in db[A].following
                 /\ A \in db[B].followers
                 /\ Cardinality({ i \in DOMAIN db[B].followersDetails :
                                    db[B].followersDetails[i].uid = A }) = 1
                 /\ db[B].followersCount = writes[n].before + 1
            ELSE /\ B \notin db[A].following
                 /\ A \notin db[B].followers
                 /\ A \notin DetailUids(db[B].followersDetails)
                 /\ db[B].followersCount = writes[n].before - 1

(***************************************************************************)
(* Properties of the slug operations and of their interleavings with the   *)
(* follow graph                                                            *)
(***************************************************************************)

\* The four fields of a document that hold the follow graph.
GraphFields(d) ==
    <<d.following, d.followers, d.followersCount, d.followersDetails>>

\* C17. Graph fields are written by the transactions only: every step that
\* changes following, followers, followersCount or followersDetails of a
\* document is the commit of a follow / unfollow transaction of which the
\* document is the viewer or the target; no step of upsert_user,
\* ensure_user_slug or backfill_all_slugs changes them.
C17_GraphFieldsOnlyByTx ==
    [][ \A u \in Users :
          GraphFields(db'[u]) # GraphFields(db[u]) =>
            \E p \in Procs :
                /\ Committed(p) /\ ended'.wrote
                /\ u \in {call[p].viewer, call[p].target}
      ]_vars

\* C18. Slug write-once: no step changes the stored slug of a document
\* whose stored slug is non-empty.
C18_SlugWriteOnce ==
    [][ \A u \in Users :
          Truthy(db[u].slug) => db'[u].slug = db[u].slug
      ]_vars

\* C19. ensure_user_slug on a record that has a slug: the step of api_me
\* that runs ensure_user_slug(uid, user) on a record whose slug is non-empty
\* writes nothing and returns the record with that slug.
C19_EnsureKeepsSlug ==
    [][ \A p \in Procs :
          ( /\ pc[p] = "ensure" /\ pc'[p] # pc[p]
            /\ Truthy(vsnap[p].doc.slug) ) =>
              /\ db' = db /\ ver' = ver /\ writes' = writes
              /\ ended'.op = "ensure_user_slug"
              /\ ~ended'.wrote
              /\ ended'.slug = vsnap[p].doc.slug
      ]_vars

\* ensure_user_slug has returned a record with its slug kept, although the
\* names of the document now derive to another slug.
C19_Witness ==
    /\ ended.op = "ensure_user_slug" /\ ~ended.wrote
    /\ ended.viewer \in Users
    /\ Truthy(ended.slug)
    /\ db[ended.viewer].slug = ended.slug
    /\ Truthy(derive_slug(db[ended.viewer]))
    /\ derive_slug(db[ended.viewer]) # ended.slug

\* The writes of operation op to document u, as positions in the log.
WritesOf(op, u) ==
    { i \in DOMAIN writes : writes[i].op = op /\ writes[i].viewer = u }

\* C20. ensure_user_slug is idempotent: over all the calls made for a user,
\* concurrent ones included, ensure_user_slug writes the slug of that user
\* at most once, and while no upsert_user has written the document the
\* stored slug is the one a single call derives from it.
C20_EnsureWritesOnce ==
    \A u \in Users :
        /\ Cardinality(WritesOf("ensure_user_slug", u)) <= 1
        /\ ( /\ WritesOf("ensure_user_slug", u) # {}
             /\ WritesOf("upsert_user", u) = {} ) =>
                db[u].slug = derive_slug(db[u])

(***************************************************************************)
(* Frame and postconditions of the transactions                            *)
(***************************************************************************)

\* The entries of a followersDetails list that are not the entry of uid, in
\* their order.
OtherDetails(details, uid) == SelectSeq(details, LAMBDA e : e.uid # uid)

C22_UnfollowPostcondition ==
    [][ /\ \A p \in Procs :
            ( /\ Committed(p) /\ call[p].op = "unfollow"
              /\ call[p].target \in db[call[p].viewer].following ) =>
                LET A == call[p].viewer
                    B == call[p].target
                    prev == db[B].followersCount
                IN  /\ ended'.wrote /\ ~ended'.isFollowing
                    /\ B \notin db'[A].following
                    /\ A \notin db'[B].followers
                    /\ db'[B].followersCount =
                          (IF prev - 1 > 0 THEN prev - 1 ELSE 0)
                    /\ ended'.followersCount = db'[B].followersCount
                    /\ A \notin DetailUids(db'[B].followersDetails)
        /\ \A u \in Users : db'[u].followersCount >= 0
      ]_vars

\* The only follower of a target has unfollowed it: the count is back at 0.
C22_Witness ==
    /\ ended.op = "unfollow" /\ ended.exc = "none" /\ ended.wrote
    /\ ended.followersCount = 0
    /\ db[ended.target].followersCount = 0
    /\ db[ended.target].followers = {}

RuleMatch(u, target) ==
    \/ Strip(Lower(OrEmpty(u.slug))) = target
    \/ derive_slug([u EXCEPT !.fullName = None]) = target
    \/ derive_slug([u EXCEPT !.firstName = None, !.lastName = None]) = target

\* C24. Result of get_user_by_slug: for a slug that lower() and strip()
\* leave non-empty, the call returns a record with that stored slug when
\* the indexed query yields one; otherwise it returns the first record of
\* the stream order that matches by one of the rules, and None exactly when
\* no record matches.  For an empty slug it returns None.
C24_ResolutionResult ==
    ended.op = "get_user_by_slug" =>
        LET target == Strip(Lower(OrEmpty(ended.slugIn)))
            indexed == { u \in Users : db[u].slug = target }
            hits == { u \in Users : RuleMatch(db[u], target) }
            first == { u \in hits :
                         \A i \in DOMAIN ended.order :
                            ended.order[i] = u =>
                              \A j \in 1..(i - 1) : ended.order[j] \notin hits }
        IN  IF target = <<>> THEN ended.target = NoUser
            ELSE IF ended.fastOk /\ indexed # {} THEN ended.target \in indexed
            ELSE /\ (ended.target = NoUser) <=> (hits = {})
                 /\ hits # {} => ended.target \in first

\* The indexed query worked and returned a record with the stored slug,
\* although another record that matches the slug by its names comes first
\* in the stream order.
C24_Witness ==
    /\ ended.op = "get_user_by_slug" /\ ended.fastOk
    /\ ended.target = "u3"
    /\ RuleMatch(db["u1"], Strip(Lower(ended.slugIn)))
    /\ ended.order[1] = "u1"

\* C25. Fast-path failure: when the indexed query raises, get_user_by_slug
\* raises nothing and returns what the scan of the collection alone gives,
\* the first record of the stream order that the scan loop matches.
C25_FastFailureFallsBack ==
    (ended.op = "get_user_by_slug" /\ ~ended.fastOk) =>
        /\ ended.exc = "none"
        /\ ended.target =
              IF SlugTarget(ended.slugIn) = <<>> THEN NoUser
              ELSE FirstOf(ended.order, ScanHits(db, SlugTarget(ended.slugIn)))

\* The indexed query raised where it would have selected u3 by its stored
\* slug, and the scan returned u1, matched by its names earlier in the
\* stream.
C25_Witness ==
    /\ ended.op = "get_user_by_slug" /\ ~ended.fastOk
    /\ FastHits(db, SlugTarget(ended.slugIn)) = {"u3"}
    /\ ended.target = "u1"

(***************************************************************************)
(* Properties of the backfill sweep                                        *)
(***************************************************************************)

\* C26. Backfill batch independence: every commit of a sweep stores at most
\* batch_size updates; a commit that fails changes nothing, so that after
\* it every slug of an earlier committed batch is stored and is derive_slug
\* of its user; every slug a step writes is derive_slug of the user, and no
\* step changes a record that has a slug.
C26_BatchIndependence ==
    [][ /\ \A u \in Users :
              /\ Truthy(db[u].slug) => db'[u] = db[u]
              /\ db'[u] # db[u] =>
                    db'[u] = [db[u] EXCEPT !.slug = derive_slug(db[u])]
        /\ \A p \in Procs :
              (pc[p] = "batch" /\ vsnap'[p] # vsnap[p]) =>
                  Cardinality({ u \in Users : ver'[u] # ver[u] })
                      <= vsnap[p].doc.batch_size
        /\ (ended' # ended /\ ended'.op = "backfill_all_slugs"
                           /\ ended'.exc # "none") =>
              /\ db' = db
              /\ \A u \in ended'.committed :
                    /\ Truthy(db'[u].slug)
                    /\ db'[u].slug = derive_slug(db'[u])
                    /\ ~Truthy(ended'.before[u].slug) ]_vars

\* A sweep failed in a later commit after an earlier batch was committed,
\* in a collection where another record has had its slug all along.
C26_Witness ==
    /\ ended.op = "backfill_all_slugs" /\ ended.exc = "Exception"
    /\ ended.committed # {}
    /\ \E u \in Users : Truthy(ended.before[u].slug) /\ Truthy(db[u].slug)

\* C27. A sweep that returns, with no other write to the collection since
\* its stream, has given every user that had no slug and has a derivable
\* one the slug derive_slug, has left every other user as it was, and
\* returns the number of records it changed.
C27_BackfillCompletes ==
    (ended.op = "backfill_all_slugs" /\ ended.exc = "none" /\ ended.alone) =>
        /\ \A u \in Users :
              db[u] = IF ~Truthy(ended.before[u].slug)
                         /\ Truthy(derive_slug(ended.before[u]))
                      THEN [ended.before[u] EXCEPT
                              !.slug = derive_slug(ended.before[u])]
                      ELSE ended.before[u]
        /\ ended.updated =
              Cardinality({ u \in Users : db[u] # ended.before[u] })

\* A sweep of two batches returned 2 in a collection where a third user
\* has no slug and none can be derived.
C27_Witness ==
    /\ ended.op = "backfill_all_slugs" /\ ended.exc = "none" /\ ended.alone
    /\ ended.updated = 2 /\ ended.batch_size = 1
    /\ \E u \in Users : /\ ~Truthy(ended.before[u].slug)
                         /\ ~Truthy(db[u].slug)

(***************************************************************************)
(* Properties of the slug functions                                        *)
(***************************************************************************)

\* The slug of a record under "first non-empty wins": the normalised
\* firstName + " " + lastName if that is non-empty, else the normalised
\* fullName if that is non-empty, else empty.
FirstNonEmpty(u) ==
    LET byNames == kebab_any(OrEmpty(u.firstName) \o <<" ">> \o OrEmpty(u.lastName))
        byFull == kebab_any(u.fullName)
    IN  IF byNames # <<>> THEN byNames ELSE byFull

\* C28. derive_slug follows "first non-empty wins": for every record it
\* returns the normalised firstName + " " + lastName if that is non-empty,
\* otherwise the normalised fullName if that is non-empty, and empty/None
\* only when neither is.
C28_FirstNonEmptyWins ==
    \A u \in Users : OrEmpty(derive_slug(db[u])) = FirstNonEmpty(db[u])

\* Is s a non-empty token of letters and digits?
IsToken(s) ==
    /\ s # None /\ s # <<>>
    /\ \A i \in DOMAIN s : s[i] \in UpperChars \cup LowerChars \cup DigitChars

\* s with a space before it, every space doubled and two spaces after it.
RECURSIVE Padded(_)
Padded(s) ==
    IF s = None THEN None
    ELSE IF s = <<>> THEN <<" ", " ">>
    ELSE IF Len(s) = 1 THEN <<" ">> \o (IF Head(s) = " " THEN <<" ", " ">> ELSE s)
                            \o <<" ", " ">>
    ELSE <<" ">> \o (IF Head(s) = " " THEN <<" ", " ">> ELSE <<Head(s)>>)
         \o Tail(Padded(Tail(s)))

\* The name fields of u with f applied to each.
NamesOf(u, f(_)) ==
    [firstName |-> f(u.firstName), lastName |-> f(u.lastName),
     fullName |-> f(u.fullName)]

LowerName(s) == IF s = None THEN None ELSE Lower(s)

\* C29. derive_slug is insensitive to letter case and to leading, trailing
\* and repeated whitespace in the name fields; for tokens f and l the record
\* {firstName f, lastName l} and the record {fullName: padded "f l"} both
\* give the lowercased tokens joined by one hyphen; a record with no name
\* fields gives None.  The slug a sweep stores is that value.
C29_CaseAndSpaceInsensitive ==
    \A u \in Users :
        LET d == db[u]
            f == d.firstName
            l == d.lastName
        IN  /\ derive_slug(NamesOf(d, LowerName)) = derive_slug(d)
            /\ derive_slug(NamesOf(d, Padded)) = derive_slug(d)
            /\ (IsToken(f) /\ IsToken(l)) =>
                  /\ derive_slug([firstName |-> f, lastName |-> l,
                                  fullName |-> None])
                        = Lower(f) \o <<"-">> \o Lower(l)
                  /\ derive_slug([firstName |-> None, lastName |-> None,
                                  fullName |-> Padded(f \o <<" ">> \o l)])
                        = Lower(f) \o <<"-">> \o Lower(l)
            /\ (d.firstName = None /\ d.lastName = None /\ d.fullName = None)
                  => derive_slug(d) = None
            /\ (\E i \in DOMAIN writes :
                    writes[i].op = "backfill_all_slugs" /\ writes[i].target = u)
                  => d.slug = derive_slug(NamesOf(d, Padded))

\* A sweep has stored the slug of an upper-case firstName and a lower-case
\* lastName, both tokens.
C29_Witness ==
    /\ IsToken(db["u1"].firstName) /\ IsToken(db["u1"].lastName)
    /\ db["u1"].firstName # Lower(db["u1"].firstName)
    /\ db["u1"].slug = Lower(db["u1"].firstName) \o <<"-">> \o db["u1"].lastName

\* Has s the shape of a slug: characters of [a-z0-9-] only, no two hyphens
\* in a row, no hyphen at either end?
SlugShape(s) ==
    /\ \A i \in DOMAIN s : s[i] \in LowerChars \cup DigitChars \cup {"-"}
    /\ \A i \in DOMAIN s : (i > 1 /\ s[i] = "-") => s[i - 1] # "-"
    /\ s # <<>> => (Head(s) # "-" /\ s[Len(s)] # "-")

\* C30. kebab_any gives, for every string, a result of characters in
\* [a-z0-9-] without two consecutive hyphens and without a hyphen at either
\* end, the empty string when no letter or digit survives, and a result
\* that kebab_any leaves as it is.  Checked on every name field and slug
\* stored; the slug a sweep stores has that shape.
C30_NormalizeShape ==
    \A u \in Users :
        /\ \A x \in {db[u].firstName, db[u].lastName, db[u].fullName,
                      db[u].email, db[u].slug} :
              LET s == kebab_any(x)
              IN  /\ SlugShape(s)
                  /\ kebab_any(s) = s
                  /\ (s = <<>>) <=>
                        (\A i \in DOMAIN OrEmpty(x) :
                            OrEmpty(x)[i] \notin UpperChars \cup LowerChars
                                                            \cup DigitChars)
        /\ (\E i \in DOMAIN writes :
                writes[i].op = "backfill_all_slugs" /\ writes[i].target = u)
              => (db[u].slug # <<>> /\ SlugShape(db[u].slug))

\* A sweep has stored the slug "a" for a fullName with a hyphen in front,
\* an upper-case letter and a character that is stripped.
C30_Witness ==
    /\ db["u1"].fullName = <<"-", "A", "@">>
    /\ db["u1"].slug = <<"a">>

(***************************************************************************)
(* Properties of the follower snapshot                                     *)
(***************************************************************************)

\* Is the field absent or white space only?
IsBlank(s) == Strip(OrEmpty(s)) = <<>>

\* C31. _best_full_name never returns the empty string, whichever of
\* firstName, lastName, fullName and email are absent, blank or present: it
\* is the present ones of firstName and lastName joined by a space, else
\* fullName, else a value that is no name (the email or "User"); and every
\* followersDetails entry a follow has written has a non-empty fullName.
C31_BestFullNameNonEmpty ==
    \A u \in Users :
        LET d == db[u]
            name == best_full_name(d)
        IN  /\ name # <<>>
            /\ (~IsBlank(d.firstName) /\ ~IsBlank(d.lastName)) =>
                  name = Strip(d.firstName) \o <<" ">> \o Strip(d.lastName)
            /\ (~IsBlank(d.firstName) /\ IsBlank(d.lastName)) =>
                  name = Strip(d.firstName)
            /\ (IsBlank(d.firstName) /\ ~IsBlank(d.lastName)) =>
                  name = Strip(d.lastName)
            /\ (IsBlank(d.firstName) /\ IsBlank(d.lastName)
                                    /\ ~IsBlank(d.fullName)) =>
                  name = Strip(d.fullName)
            /\ (IsBlank(d.firstName) /\ IsBlank(d.lastName)
                                    /\ IsBlank(d.fullName)) =>
                  name \in {d.email, <<"U", "s", "e", "r">>}
            /\ \A i \in DOMAIN d.followersDetails :
                  /\ d.followersDetails[i].fullName # <<>>
                  /\ d.followersDetails[i].fullName =
                        best_full_name(db[d.followersDetails[i].uid])

\* A follow by u1, created without any name and without email, has written
\* its entry into the followersDetails of its target.
C31_Witness ==
    /\ IsBlank(db["u1"].firstName) /\ IsBlank(db["u1"].lastName)
    /\ IsBlank(db["u1"].fullName) /\ db["u1"].email = None
    /\ \E u \in Users : \E i \in DOMAIN db[u].followersDetails :
          db[u].followersDetails[i].uid = "u1"

\* C32. The counter a follow or unfollow starts from is the stored
\* followersCount of the target, also when that is 0: a commit of a follow
\* that writes stores the stored count plus 1 (1 for a target with count 0
\* and no followers, whatever stats.followers holds) and returns it, and a
\* commit of an unfollow that writes stores the stored count minus 1, not
\* below 0.
C32_StoredCountIsTheStart ==
    [][ \A p \in Procs :
          (Committed(p) /\ ended'.wrote) =>
            LET B == call[p].target
                stored == db[B].followersCount
            IN  /\ db'[B].followersCount =
                      IF call[p].op = "follow" THEN stored + 1
                      ELSE IF stored > 0 THEN stored - 1 ELSE 0
                /\ ended'.followersCount = db'[B].followersCount
                /\ (call[p].op = "follow" /\ stored = 0
                                          /\ db[B].followers = {}) =>
                      db'[B].followersCount = 1
      ]_vars

\* C33. Write frame of a follow or unfollow transaction: its commit changes
\* no field of the viewer document but following, no field of the target
\* document but followers, followersCount and followersDetails, and no
\* third document; no step changes the slug or a name field of a document,
\* and every step that is not such a commit leaves the store as it is.
C33_WriteFrame ==
    [][ /\ \A u \in Users :
              /\ db'[u].slug = db[u].slug
              /\ db'[u].firstName = db[u].firstName
              /\ db'[u].lastName = db[u].lastName
              /\ db'[u].fullName = db[u].fullName
              /\ db'[u].email = db[u].email
        /\ (\A p \in Procs : ~(Committed(p) /\ ended'.wrote)) =>
              (db' = db /\ ver' = ver)
        /\ \A p \in Procs :
              (Committed(p) /\ ended'.wrote) =>
                LET A == call[p].viewer
                    B == call[p].target
                IN  /\ A # B
                    /\ db[A] = [db'[A] EXCEPT !.following = db[A].following]
                    /\ db[B] = [db'[B] EXCEPT
                                  !.followers = db[B].followers,
                                  !.followersCount = db[B].followersCount,
                                  !.followersDetails = db[B].followersDetails]
                    /\ \A u \in Users \ {A, B} :
                          db'[u] = db[u] /\ ver'[u] = ver[u]
      ]_vars

\* A follow by u1, which has no stored slug, has committed: the entry of u1
\* in the followersDetails of its target carries the derived slug, and the
\* document of u1 still has none.
C33_Witness ==
    /\ ended.exc = "none" /\ ended.op = "follow" /\ ended.wrote
    /\ ended.viewer = "u1"
    /\ db["u1"].slug = None
    /\ \E i \in DOMAIN db[ended.target].followersDetails :
          /\ db[ended.target].followersDetails[i].uid = "u1"
          /\ db[ended.target].followersDetails[i].slug = derive_slug(db["u1"])

\* C34. Stored slug takes precedence in resolution: whenever some user has
\* a stored slug equal to lower(trim(s)), get_user_by_slug(s) returns a user
\* whose stored slug equals it, whether or not the indexed query succeeds.
C34_StoredSlugFirst ==
    ended.op = "get_user_by_slug" =>
        LET target == SlugTarget(ended.slugIn)
            holders == { u \in Users : db[u].slug = target }
        IN  (target # <<>> /\ holders # {}) => ended.target \in holders

\* C35. get_user_by_slug is read-only: a call changes no document, no
\* document version and issues no write, whether it returns a record found
\* by the indexed query, one found by the scan that has no stored slug, or
\* None; for a slug that is empty or white space only it returns None
\* without querying the collection, and for any other slug it queries.
C35_ResolutionReadOnly ==
    [][ CallStarts =>
          /\ db' = db /\ ver' = ver /\ writes' = writes
          /\ ended'.op = "get_user_by_slug"
          /\ IF Strip(OrEmpty(ended'.slugIn)) = <<>>
             THEN ended'.target = NoUser /\ ~ended'.queried
             ELSE ended'.queried
          /\ (ended'.target # NoUser /\ ~Truthy(db[ended'.target].slug)) =>
                ~Truthy(db'[ended'.target].slug)
      ]_vars

\* After a lookup or more, a lookup of a slug of white space only has
\* returned None without a query, u1 still being without a stored slug.
C35_Witness ==
    /\ ended.op = "get_user_by_slug" /\ ended.slugIn = BlankSlug
    /\ ended.target = NoUser /\ ~ended.queried
    /\ ncalls >= 2
    /\ ~Truthy(db["u1"].slug) /\ writes = <<>>

\* C36. backfill_all_slugs is idempotent: a sweep started right after a
\* sweep has returned, no other sweep running, updates no record, returns 0
\* and leaves the store as the first sweep left it.
C36_BackfillIdempotent ==
    [][ ( /\ CallStarts
          /\ ended.op = "backfill_all_slugs" /\ ended.exc = "none"
          /\ \A p \in Procs : pc[p] = "idle" ) =>
            /\ \A p \in Procs : pc'[p] = "idle"
            /\ ended'.op = "backfill_all_slugs" /\ ended'.exc = "none"
            /\ ended'.updated = 0 /\ ended'.committed = {}
            /\ db' = db /\ ver' = ver /\ writes' = writes
      ]_vars

\* A first sweep has stored two slugs and a second sweep, started after it,
\* has returned 0 on the store the first one left.
C36_Witness ==
    /\ ncalls = 2 /\ Len(writes) = 2
    /\ \A p \in Procs : pc[p] = "idle"
    /\ ended.op = "backfill_all_slugs" /\ ended.exc = "none"
    /\ ended.updated = 0 /\ ended.before = db

====
